---- MODULE Spec2Model ----
(***************************************************************************)
(* gulp-labelizer (index.js): a process-wide Set of content hashes, loaded *)
(* from labeled.json when the module is loaded, and three object-mode      *)
(* stream stages built on it: notLabled (filter), label and dump.          *)
(*                                                                         *)
(* JavaScript is single-threaded and the three per-item functions are      *)
(* synchronous, so one call of a per-item function is one atomic step.     *)
(* Items wait in the writable buffer of each stage, so the steps of        *)
(* different stages interleave freely.                                     *)
(***************************************************************************)
EXTENDS Integers, Sequences, FiniteSets, TLC

\* ------------------------------------------------------------------ bounds
MaxStages == 2    \* stages piped together in one run
MaxItems  == 2    \* items the source writes into one run
MaxRuns   == 2    \* pipeline runs, over all starts of the process
CapItems  == 9    \* items written into a stage whose writer goes on after
                  \* an exception

\* ------------------------------------------------------------------- items
\* A vinyl file: contents is null, a Buffer or a Stream.
NoFile     == [kind |-> "none",   contents |-> "none"]
NullFile   == [kind |-> "null",   contents |-> "null"]
StreamFile == [kind |-> "stream", contents |-> "stream"]
BufferFile(c) == [kind |-> "buffer", contents |-> c]

Contents == {"a", "b"}
Files    == {NullFile, StreamFile} \cup {BufferFile(c) : c \in Contents}

\* file.isNull(): contents === null
isNull(file) == file.kind = "null"

\* hasha(input) hashes a Buffer or a string (sha512, hex); crypto's
\* hash.update throws a TypeError for any other input, such as a Stream.
hashable(file) == file.kind = "buffer"

\* the first hex digits of the sha512 digests of "a" and "b"
hasha(contents) ==
  CASE contents = "a" -> "1f40fc92"
    [] contents = "b" -> "52677688"

\* -------------------------------------------------------------- JSON text
\* The record file's text is a sequence of tokens.
Tok(t, v) == [t |-> t, v |-> v]
LBRACKET  == Tok("[", "")
RBRACKET  == Tok("]", "")
COMMA     == Tok(",", "")
NEWLINE   == Tok("ws", "\n")
INDENT    == Tok("ws", "\n  ")
STR(s)    == Tok("string", s)

RECURSIVE stringifyItems(_, _)
stringifyItems(arr, i) ==
  IF i > Len(arr) THEN << >>
  ELSE <<INDENT, STR(arr[i])>>
       \o (IF i < Len(arr) THEN <<COMMA>> ELSE << >>)
       \o stringifyItems(arr, i + 1)

\* mutant: the Set itself is stringified, which gives an empty object
JSONStringify_ofSet(arr) == <<Tok("{", ""), Tok("}", "")>>

\* mutant: the last entry is left out
JSONStringify_skipsLast(arr) ==
  IF Len(arr) <= 1 THEN <<LBRACKET, RBRACKET>>
  ELSE <<LBRACKET>> \o stringifyItems(SubSeq(arr, 1, Len(arr) - 1), 1)
       \o <<NEWLINE, RBRACKET>>

\* JSON.stringify(array, null, 2)
JSONStringify(arr) ==
  IF Len(arr) = 0 THEN <<LBRACKET, RBRACKET>>
  ELSE <<LBRACKET>> \o stringifyItems(arr, 1) \o <<NEWLINE, RBRACKET>>

\* JSON.stringify(array): no white space
RECURSIVE compactItems(_, _)
compactItems(arr, i) ==
  IF i > Len(arr) THEN << >>
  ELSE <<STR(arr[i])>>
       \o (IF i < Len(arr) THEN <<COMMA>> ELSE << >>)
       \o compactItems(arr, i + 1)

isWhiteSpace(tok) == tok.t = "ws"

\* JSON.parse(text) for an array of strings: [ok |-> FALSE] is a SyntaxError
JSONParse(text) ==
  LET toks == SelectSeq(text, LAMBDA tok : ~isWhiteSpace(tok))
      n    == Len(toks)
      wellFormed ==
        /\ n >= 2
        /\ toks[1] = LBRACKET
        /\ toks[n] = RBRACKET
        /\ \/ n = 2
           \/ /\ n % 2 = 1
              /\ \A k \in 2..(n - 1) :
                   IF k % 2 = 0 THEN toks[k].t = "string" ELSE toks[k] = COMMA
  IN IF wellFormed
     THEN [ok |-> TRUE,
           value |-> [k \in 1..((n - 1) \div 2) |-> toks[2 * k].v]]
     ELSE [ok |-> FALSE, value |-> << >>]

\* ------------------------------------------------------------- record file
Absent         == [exists |-> FALSE, text |-> << >>]
FileOf(text)   == [exists |-> TRUE,  text |-> text]

\* an array found in the record file, with a repeated entry
FoundArrays == { <<"1f40fc92", "1f40fc92">> }

\* texts that are not JSON: an empty file, a trailing comma
InvalidTexts ==
  { << >>,
    <<LBRACKET, STR("cf83e135"), COMMA, RBRACKET>> }

\* what may be on disk when the process first starts
InitialFiles ==
  {Absent}
    \cup {FileOf(JSONStringify(arr)) : arr \in FoundArrays}
    \cup {FileOf(<<LBRACKET>> \o compactItems(<<"cf83e135", "1f40fc92">>, 1)
                 \o <<RBRACKET>>)}
    \cup {FileOf(text) : text \in InvalidTexts}

\* ----------------------------------------------------------- the label set
\* A JavaScript Set keeps its values in insertion order: a sequence without
\* repetitions.
has(set, h) == \E k \in 1..Len(set) : set[k] = h

\* mutant: an array instead of a Set, every value is pushed
add_push(set, h) == Append(set, h)

\* mutant: a value that is added again moves to the end
add_movesToEnd(set, h) == SelectSeq(set, LAMBDA x : x # h) \o <<h>>

add(set, h) == IF has(set, h) THEN set ELSE Append(set, h)

RECURSIVE newSet(_, _)
\* new Set(iterable): adds the values one by one
newSet(arr, i) ==
  IF i = 0 THEN << >> ELSE add(newSet(arr, i - 1), arr[i])

Values(set) == {set[k] : k \in 1..Len(set)}

\* mutant: a file that cannot be parsed counts as an empty record
_getLabeledFiles_swallows(rf) ==
  IF rf.exists /\ JSONParse(rf.text).ok
  THEN JSONParse(rf.text) ELSE [ok |-> TRUE, value |-> << >>]

\* _getLabeledFiles(): the record file's array, [] when there is no file;
\* a SyntaxError of JSON.parse is not caught
_getLabeledFiles(rf) ==
  IF rf.exists THEN JSONParse(rf.text) ELSE [ok |-> TRUE, value |-> << >>]

\* -------------------------------------------------- the per-item functions
\* The outcome of one call: how it left (via the completion callback or by
\* a thrown exception), the callback's error argument or the exception, the
\* item it handed on, the label set and record file it leaves behind, and
\* how many times it overwrote the record file.
Forward(file, set, rf) ==
  [via |-> "next", err |-> "null", out |-> <<file>>,
   labeledSet |-> set, recordFile |-> rf, wrote |-> 0]
Drop(set, rf) ==
  [via |-> "next", err |-> "null", out |-> << >>,
   labeledSet |-> set, recordFile |-> rf, wrote |-> 0]
Throw(e, set, rf) ==
  [via |-> "throw", err |-> e, out |-> << >>,
   labeledSet |-> set, recordFile |-> rf, wrote |-> 0]

\* mutant: the test of line 65 the wrong way round
_filterNotLabled_inverted(file, set, rf) ==
  IF isNull(file) THEN Forward(file, set, rf)
  ELSE IF ~hashable(file) THEN Throw("TypeError", set, rf)
  ELSE IF has(set, hasha(file.contents)) THEN Forward(file, set, rf)
  ELSE Drop(set, rf)

\* mutant: the filter labels what it lets through
_filterNotLabled_adds(file, set, rf) ==
  IF isNull(file) THEN Forward(file, set, rf)
  ELSE IF ~hashable(file) THEN Throw("TypeError", set, rf)
  ELSE IF has(set, hasha(file.contents)) THEN Drop(set, rf)
  ELSE Forward(file, add(set, hasha(file.contents)), rf)

\* mutant: the record file is read again for every item
_filterNotLabled_rereads(file, set, rf) ==
  IF isNull(file) THEN Forward(file, set, rf)
  ELSE IF ~hashable(file) THEN Throw("TypeError", set, rf)
  ELSE IF hasha(file.contents) \in
            {_getLabeledFiles(rf).value[k] :
               k \in 1..Len(_getLabeledFiles(rf).value)}
       THEN Drop(set, rf)
  ELSE Forward(file, set, rf)

_filterNotLabled(file, set, rf) ==
  IF isNull(file) THEN Forward(file, set, rf)
  ELSE IF ~hashable(file) THEN Throw("TypeError", set, rf)
  ELSE IF has(set, hasha(file.contents)) THEN Drop(set, rf)
  ELSE Forward(file, set, rf)

\* mutant: the hash is computed but not added
_labelFile_noAdd(file, set, rf) ==
  IF isNull(file) THEN Forward(file, set, rf)
  ELSE IF ~hashable(file) THEN Throw("TypeError", set, rf)
  ELSE Forward(file, set, rf)

\* mutant: an item that is labeled already is not handed on
_labelFile_filters(file, set, rf) ==
  IF isNull(file) THEN Forward(file, set, rf)
  ELSE IF ~hashable(file) THEN Throw("TypeError", set, rf)
  ELSE IF has(set, hasha(file.contents)) THEN Drop(set, rf)
  ELSE Forward(file, add(set, hasha(file.contents)), rf)

\* mutant: the exception of hasha is caught and passed to next
_labelFile_reportsError(file, set, rf) ==
  IF isNull(file) THEN Forward(file, set, rf)
  ELSE IF ~hashable(file)
       THEN [via |-> "next", err |-> "TypeError", out |-> << >>,
             labeledSet |-> set, recordFile |-> rf, wrote |-> 0]
  ELSE Forward(file, add(set, hasha(file.contents)), rf)

\* mutant: the hash is added now, next is called from a later tick
_labelFile_deferred(file, set, rf) ==
  IF isNull(file) THEN Forward(file, set, rf)
  ELSE IF ~hashable(file) THEN Throw("TypeError", set, rf)
  ELSE [via |-> "pending", err |-> "null", out |-> << >>,
        labeledSet |-> add(set, hasha(file.contents)), recordFile |-> rf,
        wrote |-> 0]

\* mutant: the Set is made anew from the one hash
_labelFile_replaces(file, set, rf) ==
  IF isNull(file) THEN Forward(file, set, rf)
  ELSE IF ~hashable(file) THEN Throw("TypeError", set, rf)
  ELSE Forward(file, <<hasha(file.contents)>>, rf)

_labelFile(file, set, rf) ==
  IF isNull(file) THEN Forward(file, set, rf)
  ELSE IF ~hashable(file) THEN Throw("TypeError", set, rf)
  ELSE Forward(file, add(set, hasha(file.contents)), rf)

\* mutant: no test of file.isNull()
_dumpToRecordJSON_noNullCheck(file, set, rf, writeOk) ==
  IF ~writeOk THEN Throw("Error", set, rf)
  ELSE [Throw("ReferenceError", set, FileOf(JSONStringify(set)))
          EXCEPT !.wrote = 1]

\* writeOk: whether fs.writeFileSync succeeds; when it cannot open the file
\* it throws and the file stays as it was.  After the write the function
\* calls cb, a name that is not defined anywhere: a ReferenceError.
_dumpToRecordJSON(file, set, rf, writeOk) ==
  IF isNull(file) THEN Forward(file, set, rf)
  ELSE IF ~writeOk THEN Throw("Error", set, rf)
  ELSE [Throw("ReferenceError", set, FileOf(JSONStringify(set)))
          EXCEPT !.wrote = 1]

\* --------------------------------------------------------- the stage stream
\* mutant: no option given, through2-concurrent's own default, 16, applies
maxConcurrency_default == 8 + 8

\* through.obj({maxConcurrency: 8}, transformer): the stream hands an item
\* to the transformer only while fewer than this many calls are incomplete
maxConcurrency == 8

\* ------------------------------------------------------------------- state
VARIABLES
  phase,       \* "off": not started, "loaded": module loaded, "crashed"
  recordFile,  \* labeled.json
  labeledSet,  \* the module's Set
  streams,     \* the stages of the current run, in pipe order
  run,         \* "building", "flowing", "ended", "failed"
  fed,         \* items written into the current run
  runs,        \* pipeline runs begun so far
  last,        \* the most recent step, as observed
  loaded,      \* the hashes the module load put in the Set
  labeled,     \* the hashes _labelFile has added in this process
  written,     \* the items _dumpToRecordJSON wrote the file for, this run
  writes,      \* overwrites of the record file, this run
  entered,     \* items with contents that entered a dump stage, this run
  found,       \* the array the module load found in the record file
  order        \* the hashes labeled in this process, in order of first time

vars == <<phase, recordFile, labeledSet, streams, run, fed, runs, last,
          loaded, labeled, written, writes, entered, found, order>>

\* what a step did: the operation, the stage (0: none) and its item, the
\* outcome, and the label set, the record file and the downstream stage's
\* buffer as they were before the step
Observed(op, i, file, res) ==
  [op |-> op, stage |-> i, item |-> file, via |-> res.via, err |-> res.err,
   out |-> res.out, setBefore |-> labeledSet, fileBefore |-> recordFile,
   downBefore |-> IF i >= 1 /\ i < Len(streams)
                  THEN streams[i + 1].inbox ELSE << >>]

NothingYet ==
  [op |-> "start", stage |-> 0, item |-> NoFile, via |-> "next",
   err |-> "null", out |-> << >>, setBefore |-> << >>, fileBefore |-> Absent,
   downBefore |-> << >>]

Init ==
  /\ phase = "off"
  /\ recordFile \in InitialFiles
  /\ labeledSet = << >>
  /\ streams = << >>
  /\ run = "building"
  /\ fed = 0
  /\ runs = 1
  /\ last = NothingYet
  /\ loaded = {}
  /\ labeled = {}
  /\ written = {}
  /\ writes = 0
  /\ entered = 0
  /\ found = << >>
  /\ order = << >>

\* require('./index.js'): line 31 runs once, when the module is loaded
ModuleLoad ==
  /\ phase = "off"
  /\ LET arr == _getLabeledFiles(recordFile)
     IN IF arr.ok
        THEN /\ phase' = "loaded"
             /\ labeledSet' = newSet(arr.value, Len(arr.value))
             /\ loaded' = Values(labeledSet')
             /\ found' = arr.value
             /\ last' = Observed("load", 0, NoFile, Drop(<< >>, recordFile))
        ELSE /\ phase' = "crashed"
             /\ labeledSet' = labeledSet
             /\ loaded' = loaded
             /\ found' = found
             /\ last' = Observed("load", 0, NoFile,
                                 Throw("SyntaxError", << >>, recordFile))
  /\ UNCHANGED <<recordFile, streams, run, fed, runs, labeled, order,
                 written, writes, entered>>

\* createThroughStream(transformer), piped after the stages made so far
createThroughStream(kind) ==
  /\ phase = "loaded"
  /\ run = "building"
  /\ Len(streams) < MaxStages
  /\ streams' = Append(streams, [kind |-> kind, inbox |-> << >>,
                                 concurrent |-> 0])
  /\ UNCHANGED <<phase, recordFile, labeledSet, run, fed, runs,
                 last, loaded, found, labeled, order, written, writes, entered>>

StageOps == {"notLabled", "label", "dump"}

notLabled == createThroughStream("notLabled")
label     == createThroughStream("label")
dump      == createThroughStream("dump")

\* the source writes an item into the first stage, at most max in a run
Feed(file, max) ==
  /\ phase = "loaded"
  /\ run \in {"building", "flowing"}
  /\ Len(streams) > 0
  /\ fed < max
  /\ streams' = [streams EXCEPT ![1].inbox = Append(@, file)]
  /\ run' = "flowing"
  /\ fed' = fed + 1
  /\ entered' = IF streams[1].kind = "dump" /\ ~isNull(file)
                THEN entered + 1 ELSE entered
  /\ UNCHANGED <<phase, recordFile, labeledSet, runs, last, loaded, found,
                 labeled, order, written, writes>>

Write(file) == Feed(file, MaxItems)

\* stage i has called its per-item function on the item at the head of its
\* buffer; res is the outcome.  A call that does not reach the completion
\* callback stays counted as incomplete.  caught: whether the stream's
\* writer catches an exception and goes on; if not, the run is over.
Handle(i, res, caught) ==
  /\ labeledSet' = res.labeledSet
  /\ recordFile' = res.recordFile
  /\ streams' =
       [k \in 1..Len(streams) |->
          IF k = i
          THEN [streams[k] EXCEPT
                  !.inbox = Tail(@),
                  !.concurrent = IF res.via = "next" THEN @ ELSE @ + 1]
          ELSE IF k = i + 1
               THEN [streams[k] EXCEPT !.inbox = @ \o res.out]
               ELSE streams[k]]
  /\ run' = IF res.via = "throw" /\ ~caught THEN "failed" ELSE run
  /\ entered' =
       entered + Cardinality({n \in 1..Len(res.out) :
                                /\ i < Len(streams)
                                /\ streams[i + 1].kind = "dump"
                                /\ ~isNull(res.out[n])})

Deliver(i, res) == Handle(i, res, FALSE)

Ready(i, kind) ==
  /\ phase = "loaded"
  /\ run = "flowing"
  /\ i \in 1..Len(streams)
  /\ streams[i].kind = kind
  /\ Len(streams[i].inbox) > 0
  /\ streams[i].concurrent < maxConcurrency

TransformFilter(i) ==
  /\ Ready(i, "notLabled")
  /\ LET file == Head(streams[i].inbox)
         res  == _filterNotLabled(file, labeledSet, recordFile)
     IN /\ Deliver(i, res)
        /\ last' = Observed("notLabled", i, file, res)
  /\ UNCHANGED <<phase, fed, runs, loaded, found, labeled, order, written, writes>>

TransformLabel(i) ==
  /\ Ready(i, "label")
  /\ LET file == Head(streams[i].inbox)
         res  == _labelFile(file, labeledSet, recordFile)
     IN /\ Deliver(i, res)
        /\ last' = Observed("label", i, file, res)
        /\ labeled' = IF hashable(file)
                      THEN labeled \cup {hasha(file.contents)} ELSE labeled
        /\ order' = IF hashable(file) /\ hasha(file.contents) \notin labeled
                    THEN Append(order, hasha(file.contents)) ELSE order
  /\ UNCHANGED <<phase, fed, runs, loaded, found, written, writes>>

TransformDump(i, writeOk) ==
  /\ Ready(i, "dump")
  /\ LET file == Head(streams[i].inbox)
         res  == _dumpToRecordJSON(file, labeledSet, recordFile, writeOk)
     IN /\ Deliver(i, res)
        /\ last' = Observed("dump", i, file, res)
        /\ written' = IF ~isNull(file) /\ writeOk
                      THEN written \cup {file} ELSE written
        /\ writes' = writes + res.wrote
  /\ UNCHANGED <<phase, fed, runs, loaded, found, labeled, order>>

\* the source ends and every stage has drained
End ==
  /\ phase = "loaded"
  /\ run \in {"building", "flowing"}
  /\ Len(streams) > 0
  /\ \A k \in 1..Len(streams) : streams[k].inbox = << >>
  /\ run' = "ended"
  /\ UNCHANGED <<phase, recordFile, labeledSet, streams, fed, runs,
                 last, loaded, found, labeled, order, written, writes, entered>>

\* the same process builds another pipeline
NewRun ==
  /\ phase = "loaded"
  /\ run \in {"ended", "failed"}
  /\ runs < MaxRuns
  /\ streams' = << >>
  /\ run' = "building"
  /\ fed' = 0
  /\ runs' = runs + 1
  /\ written' = {}
  /\ writes' = 0
  /\ entered' = 0
  /\ last' = NothingYet
  /\ UNCHANGED <<phase, recordFile, labeledSet, loaded, found, labeled, order>>

\* the process exits (or dies) and a new one is started: memory is lost,
\* the record file stays
Restart ==
  /\ phase \in {"loaded", "crashed"}
  /\ runs < MaxRuns
  /\ phase' = "off"
  /\ labeledSet' = << >>
  /\ streams' = << >>
  /\ run' = "building"
  /\ fed' = 0
  /\ runs' = runs + 1
  /\ last' = NothingYet
  /\ loaded' = {}
  /\ labeled' = {}
  /\ written' = {}
  /\ writes' = 0
  /\ entered' = 0
  /\ found' = << >>
  /\ order' = << >>
  /\ UNCHANGED recordFile

Next ==
  \/ ModuleLoad
  \/ notLabled
  \/ label
  \/ dump
  \/ \E file \in Files : Write(file)
  \/ \E i \in 1..MaxStages : TransformFilter(i)
  \/ \E i \in 1..MaxStages : TransformLabel(i)
  \/ \E i \in 1..MaxStages, writeOk \in BOOLEAN : TransformDump(i, writeOk)
  \/ End
  \/ NewRun
  \/ Restart

Spec == Init /\ [][Next]_vars

\* ------------------------------------- a writer that goes on after a throw
\* Whoever writes into the stage catches what the per-item function throws
\* and writes the next item.  The per-item functions being synchronous, a
\* call that threw is the only call that is never completed.
CapFiles == {NullFile, StreamFile}

TransformCaught(i, kind, writeOk) ==
  /\ Ready(i, kind)
  /\ LET file == Head(streams[i].inbox)
         res  == CASE kind = "notLabled" ->
                        _filterNotLabled(file, labeledSet, recordFile)
                   [] kind = "label" ->
                        _labelFile(file, labeledSet, recordFile)
                   [] kind = "dump" ->
                        _dumpToRecordJSON(file, labeledSet, recordFile,
                                          writeOk)
     IN /\ Handle(i, res, TRUE)
        /\ last' = Observed(kind, i, file, res)
        /\ labeled' = IF kind = "label" /\ hashable(file)
                      THEN labeled \cup {hasha(file.contents)} ELSE labeled
        /\ order' = IF kind = "label" /\ hashable(file)
                       /\ hasha(file.contents) \notin labeled
                    THEN Append(order, hasha(file.contents)) ELSE order
        /\ written' = IF kind = "dump" /\ ~isNull(file) /\ writeOk
                      THEN written \cup {file} ELSE written
        /\ writes' = IF kind = "dump" THEN writes + res.wrote ELSE writes
  /\ UNCHANGED <<phase, fed, runs, loaded, found>>

InitCap == Init /\ recordFile = Absent

NextCap ==
  \/ ModuleLoad
  \/ notLabled
  \/ label
  \/ dump
  \/ \E file \in CapFiles : Feed(file, CapItems)
  \/ \E i \in 1..MaxStages, kind \in StageOps, writeOk \in BOOLEAN :
        TransformCaught(i, kind, writeOk)

SpecCap == InitCap /\ [][NextCap]_vars

\* ------------------------------------------- the file changed from outside
\* what somebody else may leave at recordPath while the process runs: no
\* file, or a record that lists the hash of "b"
ExternalFiles == {Absent, FileOf(JSONStringify(<<"52677688">>))}

\* labeled.json is deleted or replaced behind the module's back
ExternalChange ==
  /\ phase = "loaded"
  /\ recordFile' \in ExternalFiles \ {recordFile}
  /\ UNCHANGED <<phase, labeledSet, streams, run, fed, runs, last, loaded, found,
                 labeled, order, written, writes, entered>>

\* one process, from its start on, with the file changing under it
NextExt ==
  \/ ModuleLoad
  \/ notLabled
  \/ label
  \/ dump
  \/ \E file \in Files : Write(file)
  \/ \E i \in 1..MaxStages : TransformFilter(i)
  \/ \E i \in 1..MaxStages : TransformLabel(i)
  \/ \E i \in 1..MaxStages, writeOk \in BOOLEAN : TransformDump(i, writeOk)
  \/ End
  \/ NewRun
  \/ ExternalChange

SpecExt == Init /\ [][NextExt]_vars

\* ------------------------------------------------------------ observations
\* the last step was stage op's per-item function
Ran(op) == last.op = op /\ last.stage \in 1..Len(streams)

\* the item was handed on through the completion callback, unchanged
Forwarded == last.via = "next" /\ last.err = "null" /\ last.out = <<last.item>>

\* completion was signalled with no item
Dropped == last.via = "next" /\ last.err = "null" /\ last.out = << >>

\* the downstream stage, when there is one, received exactly what the
\* function handed on
Downstream ==
  last.stage < Len(streams) =>
    streams[last.stage + 1].inbox = last.downBefore \o last.out

\* the hashes the record file lists (none when it is absent or no JSON)
FileValues(rf) ==
  LET arr == _getLabeledFiles(rf)
  IN IF arr.ok THEN {arr.value[k] : k \in 1..Len(arr.value)} ELSE {}

Kinds == [k \in 1..Len(streams) |-> streams[k].kind]

\* no value occurs twice
NoRepeats(seq) ==
  \A i \in 1..Len(seq) : \A j \in 1..Len(seq) : seq[i] = seq[j] => i = j

\* the values of an array in the order of their first occurrence
RECURSIVE FirstOccurrences(_)
FirstOccurrences(arr) ==
  IF arr = << >> THEN << >>
  ELSE LET front == FirstOccurrences(SubSeq(arr, 1, Len(arr) - 1))
           x     == arr[Len(arr)]
       IN IF \E k \in 1..Len(front) : front[k] = x
          THEN front ELSE Append(front, x)

\* insertion order: what the load found, then what was labeled since
InsertionOrder ==
  FirstOccurrences(found)
    \o SelectSeq(order, LAMBDA h : \A k \in 1..Len(found) : found[k] # h)

\* the dump step just done wrote the record file
Wrote == Ran("dump") /\ last.err = "ReferenceError"

\* ------------------------------------------------------------------ claims

\* C1: the filter stage forwards an item with a Buffer unchanged if and only
\* if the hash of its contents is not in the label set at that moment; when
\* the hash is in the set, completion is signalled with no item and nothing
\* reaches the downstream stage.
C1_FilterForwardsIffNotLabeled ==
  (Ran("notLabled") /\ last.item.kind = "buffer") =>
    /\ IF has(last.setBefore, hasha(last.item.contents))
       THEN Dropped ELSE Forwarded
    /\ Downstream

C1_Witness ==
  /\ Ran("notLabled") /\ last.item = BufferFile("a") /\ Dropped
  /\ last.stage < Len(streams)
  /\ BufferFile("b") \in {last.downBefore[k] : k \in 1..Len(last.downBefore)}

\* C2: the dump stage, for an item with non-null contents, overwrites the
\* record file with the current label set and then forwards the same item
\* through the completion callback it was given.
C2_DumpWritesAndForwards ==
  (Ran("dump") /\ ~isNull(last.item) /\ last.err # "Error") =>
    /\ recordFile = FileOf(JSONStringify(labeledSet))
    /\ Forwarded
    /\ Downstream

\* C3: an item with null contents is forwarded unchanged by each of the
\* three stages, whatever the label set holds, and neither the label set nor
\* the record file changes.
C3_NullPassthrough ==
  (last.op \in StageOps /\ Ran(last.op) /\ isNull(last.item)) =>
    /\ Forwarded
    /\ Downstream
    /\ labeledSet = last.setBefore
    /\ recordFile = last.fileBefore

C3_Witness ==
  /\ Ran("dump") /\ isNull(last.item) /\ Forwarded
  /\ Len(labeledSet) > 0
  /\ ~recordFile.exists

\* C4: once the label stage has processed an item with contents C, the hash
\* of C is in the label set for the rest of the process, and every later
\* filter step on an item with contents C drops it.
C4_LabelThenFilterDrops ==
  /\ \A h \in labeled : has(labeledSet, h)
  /\ (Ran("notLabled") /\ last.item.kind = "buffer"
        /\ hasha(last.item.contents) \in labeled) => Dropped

C4_Witness ==
  /\ Ran("notLabled") /\ last.item = BufferFile("b") /\ Dropped
  /\ hasha("b") \in labeled
  /\ Kinds = <<"notLabled">>

C6_PersistThenLoadRoundTrip ==
  (Ran("dump") /\ last.err = "ReferenceError") =>
    LET arr == _getLabeledFiles(recordFile)
    IN /\ arr.ok
       /\ Values(newSet(arr.value, Len(arr.value))) = Values(labeledSet)

C6_Witness ==
  /\ Ran("dump") /\ last.err = "ReferenceError"
  /\ Len(labeledSet) >= 2
  /\ recordFile # last.fileBefore

C8_LoadOnFirstItem ==
  last.op = "load" => (Len(streams) > 0 /\ fed > 0)

\* C8 (amended): the record file is read when the module is loaded, before
\* any stage factory is called and before any item; a file that exists but
\* holds invalid JSON makes the module load throw a SyntaxError, and that
\* process never has a stage.
C8_LoadAtModuleLoad ==
  /\ phase = "off" => (streams = << >> /\ fed = 0 /\ labeledSet = << >>)
  /\ last.op = "load" =>
       /\ phase \in {"loaded", "crashed"}
       /\ phase = "crashed" <=>
            (recordFile.exists /\ ~JSONParse(recordFile.text).ok)
  /\ phase = "crashed" =>
       /\ streams = << >>
       /\ last.op = "load" /\ last.err = "SyntaxError"
  /\ streams # << >> => phase = "loaded"

C8_Witness ==
  /\ phase = "crashed" /\ last.op = "load" /\ last.err = "SyntaxError"
  /\ recordFile.exists /\ recordFile.text # << >>

\* C9: a filter step, whether it forwards, drops or throws, leaves the label
\* set and the record file as they were.
C9_FilterIsReadOnly ==
  Ran("notLabled") =>
    (labeledSet = last.setBefore /\ recordFile = last.fileBefore)

C9_Witness ==
  /\ Ran("notLabled") /\ Forwarded /\ last.item = BufferFile("b")
  /\ Len(labeledSet) > 0 /\ recordFile.exists

\* C10 (as claimed): every item that enters the label stage is forwarded
\* unchanged; for an item with contents the set afterwards is the set before
\* plus the hash of the contents; the stage does not write the record file.
C10_LabelForwardsEveryItem ==
  Ran("label") =>
    /\ Forwarded
    /\ Downstream
    /\ recordFile = last.fileBefore
    /\ labeledSet = IF isNull(last.item) THEN last.setBefore
                    ELSE add(last.setBefore, hasha(last.item.contents))

\* C10 (amended): every item with null contents or a Buffer that enters the
\* label stage is forwarded unchanged, whether or not its hash was in the
\* set; for a Buffer the set afterwards is the set before plus the hash; an
\* item whose contents hasha cannot hash (a Stream) makes the stage throw and
\* leaves the set as it was; the stage never signals completion without the
\* item, and never writes the record file.
C10_LabelNeverFilters ==
  Ran("label") =>
    /\ recordFile = last.fileBefore
    /\ ~Dropped
    /\ Downstream
    /\ IF last.item.kind = "stream"
       THEN last.via = "throw" /\ labeledSet = last.setBefore
       ELSE /\ Forwarded
            /\ labeledSet = IF isNull(last.item) THEN last.setBefore
                            ELSE add(last.setBefore,
                                     hasha(last.item.contents))

C10_Witness ==
  /\ Ran("label") /\ last.item = BufferFile("a") /\ Forwarded
  /\ has(last.setBefore, hasha("a"))
  /\ labeledSet = last.setBefore

\* C11: the label set is filled from the record file once per process, at
\* the module load, and never read again; the stages of every run use that
\* one set.  So what a filter step decides depends on the hashes loaded then
\* and on the hashes labeled since by any stage of the process, not on what
\* the record file holds now, whoever wrote it.
C11_OneSetLoadedOnce ==
  /\ phase = "loaded" => Values(labeledSet) = loaded \cup labeled
  /\ (Ran("notLabled") /\ last.item.kind = "buffer") =>
       (Dropped <=> hasha(last.item.contents) \in loaded \cup labeled)

C11_Witness ==
  /\ Ran("notLabled") /\ last.item = BufferFile("b") /\ Forwarded
  /\ hasha("b") \in FileValues(recordFile)
  /\ recordFile = last.fileBefore
  /\ runs = 1

\* C12: labeling an item whose hash is in the set already leaves the set,
\* and its size, as it was; the set never holds a hash twice and no record
\* file that dump writes lists a hash twice, also when the file that was
\* loaded listed one more than once.
C12_SetSemantics ==
  /\ NoRepeats(labeledSet)
  /\ (Ran("label") /\ last.item.kind = "buffer"
        /\ has(last.setBefore, hasha(last.item.contents))) =>
       (labeledSet = last.setBefore /\ Len(labeledSet) = Len(last.setBefore))
  /\ Wrote =>
       (JSONParse(recordFile.text).ok
          /\ NoRepeats(JSONParse(recordFile.text).value))

C12_Witness ==
  /\ Wrote
  /\ last.fileBefore = FileOf(JSONStringify(<<"1f40fc92", "1f40fc92">>))
  /\ hasha("a") \in labeled
  /\ JSONParse(recordFile.text).value = <<"1f40fc92">>

\* C13: in every reachable state each stage has at most 8 items in flight,
\* that is handed to its per-item function and not yet completed.
C13_AtMostEightInFlight ==
  \A k \in 1..Len(streams) : streams[k].concurrent <= 8

C13_Witness ==
  \E k \in 1..Len(streams) :
    /\ streams[k].concurrent = 8
    /\ Len(streams[k].inbox) > 0
    /\ fed = 9

\* C14: in the filter and the label stage the lookup or insertion and the
\* completion signal are one step: no call of a per-item function is left
\* incomplete for another item's processing to come in between, and with
\* several items under way the set is the union of what was loaded and what
\* was inserted.
C14_AtomicSetAccess ==
  /\ run # "failed" =>
       \A k \in 1..Len(streams) : streams[k].concurrent = 0
  /\ ((Ran("notLabled") \/ Ran("label")) /\ last.via # "throw") =>
       (last.via = "next" /\ streams[last.stage].concurrent = 0)
  /\ phase = "loaded" => Values(labeledSet) = loaded \cup labeled
  /\ Ran("label") /\ last.via = "next" /\ last.item.kind = "buffer" =>
       Values(labeledSet) =
         Values(last.setBefore) \cup {hasha(last.item.contents)}

C14_Witness ==
  /\ Kinds = <<"label", "label">>
  /\ Ran("label") /\ last.stage = 2 /\ last.item = BufferFile("a")
  /\ streams[2].inbox = <<BufferFile("b")>>
  /\ Values(labeledSet) = {hasha("a"), hasha("b")}

\* C15: the dump stage overwrites the record file exactly once for each item
\* with contents and never for an item without, so when a run is over the
\* number of overwrites equals the number of items with contents that
\* entered the dump stage (a run whose last step was a failed disk write is
\* left aside).
C15_OneWritePerEnteredItem ==
  (run \in {"ended", "failed"} /\ last.err # "Error") => writes = entered

\* C16: the array dump writes lists the hashes in insertion order: those the
\* load found in the record file, in file order by first occurrence, then
\* the newly labeled ones in the order they were first added; labeling a
\* hash again does not move it.
C16_WrittenInInsertionOrder ==
  /\ phase = "loaded" => labeledSet = InsertionOrder
  /\ Wrote => JSONParse(recordFile.text).value = InsertionOrder

C16_Witness ==
  /\ Wrote
  /\ found = <<"cf83e135", "1f40fc92">>
  /\ order = <<"1f40fc92", "52677688">>
  /\ JSONParse(recordFile.text).value = <<"cf83e135", "1f40fc92", "52677688">>

\* C17: no step of any stage removes a hash from the label set; as long as
\* nobody else changes the record file, the hashes it lists are among those
\* of the set of the loaded module, and right after a dump write they are
\* the same.
C17_SetGrowsFileFollows ==
  /\ (last.op \in StageOps /\ Ran(last.op)) =>
       Values(last.setBefore) \subseteq Values(labeledSet)
  /\ phase = "loaded" =>
       /\ loaded \cup labeled \subseteq Values(labeledSet)
       /\ FileValues(recordFile) \subseteq Values(labeledSet)
  /\ Wrote => FileValues(recordFile) = Values(labeledSet)

C17_Witness ==
  /\ Ran("label") /\ last.item = BufferFile("b")
  /\ found = << >> /\ recordFile.exists
  /\ FileValues(recordFile) = {hasha("a")}
  /\ Values(labeledSet) = {hasha("a"), hasha("b")}

====
